---- MODULE Spec2Model ----
(***************************************************************************)
(* A model of ClientRenderer (markdoc-hugo-integration), the page-scoped   *)
(* controller that re-renders the preference chooser, the toggleable       *)
(* content blocks and the right navigation after a preference selection.   *)
(*                                                                         *)
(* Strings that the program concatenates (option ids such as               *)
(* "windows-beta") are sequences of string tokens: <<"windows", "beta">>.  *)
(* HTML is a sequence of tag records.                                      *)
(***************************************************************************)
EXTENDS Integers, Sequences, FiniteSets, TLC

VARIABLES
    pagePrefsConfig,       \* this.pagePrefsConfig: a page name, or "undefined"
    prefOptionsConfig,     \* this.prefOptionsConfig: a page name, or "undefined"
    chooserElement,        \* this.chooserElement: "undefined", "doc" or "arg"
    selectedValsByPrefId,  \* this.selectedValsByPrefId: pref id -> option id
    ifFunctionsByRef,      \* this.ifFunctionsByRef: ref -> ClientFunction
    doc,                   \* the loaded document: [page, variant]
    hidden,                \* per toggleable of doc: has class markdoc__hidden
    chooserHtml,           \* innerHTML of the element this.chooserElement names
    rightNav,              \* innerHTML of #TableOfContents
    listeners,             \* click listeners per pill: [chooser, static]
    outcome,               \* the last operation: [op, error, ...]
    initArgs,              \* the argument of the last initialize call
    scenario,              \* progress through the os/pkg end-to-end scenario
    nav                    \* a populateRightNav scan in progress

vars == <<pagePrefsConfig, prefOptionsConfig, chooserElement,
          selectedValsByPrefId, ifFunctionsByRef, doc, hidden, chooserHtml,
          rightNav, listeners, outcome, initArgs, scenario, nav>>

----------------------------------------------------------------------------
(* Bounds *)

\* the number of headings of a heading list scanned on its own
MaxHeaders == 3
\* the most click listeners counted on one pill
MaxListeners == 2

----------------------------------------------------------------------------
(* Strings *)

Str(s) == <<s>>
Hyphen(a, b) == <<a, b>>

Undefined == "undefined"
EmptyMap == [x \in {} |-> <<>>]

----------------------------------------------------------------------------
(* Page data embedded by the build: preference definitions.               *)
(* A template is a sequence of parts; a part is a literal token or a      *)
(* placeholder naming an earlier preference.                               *)

Lit(s) == [var |-> FALSE, s |-> s]
Ref(p) == [var |-> TRUE, s |-> p]

PageNames == {"ospkg", "os", "broken"}

\* the preference ids a click can carry; "zz" is defined on no page
AllPrefIds == {"os", "pkg", "zz"}

PrefDefs(page) ==
    CASE page = "ospkg" ->
           << [id |-> "os",
               options |-> << <<Lit("linux")>>, <<Lit("windows")>> >>,
               default |-> <<Lit("linux")>>],
              [id |-> "pkg",
               options |-> << <<Ref("os"), Lit("stable")>>,
                              <<Ref("os"), Lit("beta")>> >>,
               default |-> <<Ref("os"), Lit("stable")>>] >>
      [] page = "os" ->
           << [id |-> "os",
               options |-> << <<Lit("linux")>>, <<Lit("windows")>> >>,
               default |-> <<Lit("linux")>>] >>
      [] page = "broken" ->
           << [id |-> "os",
               options |-> << <<Lit("linux")>>, <<Lit("windows")>> >>,
               default |-> <<Lit("linux")>>],
              [id |-> "pkg",
               options |-> << >>,
               default |-> <<Ref("os"), Lit("stable")>>] >>
      [] OTHER -> << >>

\* the option ids a click can carry
OptionIds ==
    {Str("linux"), Str("windows"), Hyphen("windows", "beta")}

----------------------------------------------------------------------------
(* Preference Resolver (resolveMinifiedPagePrefs)                          *)

RECURSIVE Interpolate(_, _)
Interpolate(template, vals) ==
    IF template = << >> THEN << >>
    ELSE (IF Head(template).var
             THEN vals[Head(template).s]
             ELSE <<Head(template).s>>)
         \o Interpolate(Tail(template), vals)

ConcreteOptions(def, vals) ==
    [i \in 1..Len(def.options) |-> Interpolate(def.options[i], vals)]

Range(s) == {s[i] : i \in 1..Len(s)}

\* one preference: keep a selected member of the concrete list, else default
ResolvePref(def, sel, vals) ==
    LET opts == ConcreteOptions(def, vals)
    IN  [id |-> def.id,
         options |-> opts,
         currentValue |->
            IF def.id \in DOMAIN sel /\ sel[def.id] \in Range(opts)
               THEN sel[def.id]
               ELSE Interpolate(def.default, vals)]

RECURSIVE ResolveFrom(_, _, _, _)
ResolveFrom(defs, sel, vals, acc) ==
    IF defs = << >> THEN [error |-> FALSE, prefs |-> acc]
    ELSE LET r == ResolvePref(Head(defs), sel, vals)
         IN  IF r.options = << >>
                THEN [error |-> TRUE, prefs |-> acc]
                ELSE ResolveFrom(Tail(defs), sel,
                                 [p \in DOMAIN vals \cup {r.id} |->
                                    IF p = r.id THEN r.currentValue ELSE vals[p]],
                                 Append(acc, r))

resolveMinifiedPagePrefs(page, sel) ==
    ResolveFrom(PrefDefs(page), sel, EmptyMap, << >>)

----------------------------------------------------------------------------
(* Expression model: ClientFunction trees and their minified encoding      *)

\* minified nodes, as embedded in the page
MinFn(n, p, v, r) == [m |-> "F", n |-> n, p |-> p, v |-> v, r |-> r, l |-> << >>]
MinVar(id) == [m |-> "V", n |-> id, p |-> << >>, v |-> FALSE, r |-> "", l |-> << >>]
MinLit(o) == [m |-> "L", n |-> "", p |-> << >>, v |-> FALSE, r |-> "", l |-> o]

MdType(m) ==
    CASE m = "F" -> "Function"
      [] m = "V" -> "Variable"
      [] OTHER -> "Literal"

\* decode a compact node into its working representation
RECURSIVE expandClientFunction(_)
expandClientFunction(f) ==
    [mdtype |-> MdType(f.m),
     name |-> f.n,
     parameters |-> [i \in 1..Len(f.p) |-> expandClientFunction(f.p[i])],
     value |-> f.v,
     ref |-> f.r,
     lit |-> f.l]

\* the minified functions of a page, by content reference; values are those
\* of the build, which renders under the default selections
MinifiedIfFunctions(page) ==
    CASE page = "ospkg" ->
           [r \in {"r1", "r2", "r3"} |->
              CASE r = "r1" ->
                     MinFn("equals",
                           <<MinVar("pkg"), MinLit(Hyphen("windows", "beta"))>>,
                           FALSE, "r1")
                [] r = "r2" ->
                     MinFn("not",
                           <<MinFn("equals",
                                   <<MinVar("os"), MinLit(Str("windows"))>>,
                                   FALSE, "")>>,
                           TRUE, "r2")
                [] OTHER ->
                     MinFn("or",
                           <<MinFn("equals",
                                   <<MinVar("os"), MinLit(Str("linux"))>>,
                                   TRUE, ""),
                             MinFn("equals",
                                   <<MinVar("os"), MinLit(Str("windows"))>>,
                                   FALSE, "")>>,
                           TRUE, "r3")]
      [] page = "os" ->
           [r \in {"r1", "r2"} |->
              IF r = "r1"
                 THEN MinFn("equals", <<MinVar("os"), MinLit(Str("windows"))>>,
                            FALSE, "r1")
                 ELSE MinFn("equals", <<MinVar("os"), MinLit(Str("linux"))>>,
                            TRUE, "r2")]
      [] page = "broken" ->
           [r \in {"r1"} |->
              MinFn("equals", <<MinVar("os"), MinLit(Str("windows"))>>,
                    FALSE, "r1")]
      [] OTHER -> EmptyMap

----------------------------------------------------------------------------
(* Expression Evaluator (reresolveFunctionNode)                            *)

\* the value of a function node from its re-resolved parameters
Transform(name, ps) ==
    CASE name = "equals" -> ps[1].lit = ps[2].lit
      [] name = "not" -> ~ps[1].value
      [] name = "and" -> \A i \in 1..Len(ps) : ps[i].value
      [] name = "or" -> \E i \in 1..Len(ps) : ps[i].value
      [] OTHER -> FALSE

\* [error, node]: the node re-resolved against the variables; a variable
\* that the bindings do not hold is an error
RECURSIVE Reresolve(_, _)
Reresolve(node, variables) ==
    CASE node.mdtype = "Variable" ->
           IF node.name \in DOMAIN variables
              THEN [error |-> FALSE,
                    node |-> [node EXCEPT !.lit = variables[node.name]]]
              ELSE [error |-> TRUE, node |-> node]
      [] node.mdtype = "Function" ->
           LET rs == [i \in 1..Len(node.parameters) |->
                        Reresolve(node.parameters[i], variables)]
               ps == [i \in 1..Len(rs) |-> rs[i].node]
           IN  IF \E i \in 1..Len(rs) : rs[i].error
                  THEN [error |-> TRUE, node |-> node]
                  ELSE [error |-> FALSE,
                        node |-> [node EXCEPT !.parameters = ps,
                                              !.value = Transform(node.name, ps)]]
      [] OTHER -> [error |-> FALSE, node |-> node]

reresolveFunctionNode(clientFunction, variables) ==
    Reresolve(clientFunction, variables)


\* Object.keys order of ifFunctionsByRef: the order of insertion
RefOrder(fns) ==
    LET all == <<"r1", "r2", "r3">>
    IN  SelectSeq(all, LAMBDA r : r \in DOMAIN fns)

----------------------------------------------------------------------------
(* The document                                                            *)

\* "pruned": the view was rendered without the block of r1, "orphan": with
\* a block whose data-if names no function, "noRef": with a toggleable that
\* has no data-if, "pills": with option pills outside the chooser
DocVariants ==
    {"ok", "noNav", "noChooser", "orphan", "noRef", "pills", "pruned"}
Docs ==
    [page : {"ospkg"}, variant : {"ok", "noRef", "noNav", "pruned"}]
    \cup [page : {"os"}, variant : {"ok", "orphan", "pills", "noChooser"}]
    \cup [page : {"broken"}, variant : {"ok"}]

Block(id, ref, parent) == [id |-> id, ref |-> ref, parent |-> parent]
Header(level, id, selfHidden, parent) ==
    [level |-> level, id |-> id, selfHidden |-> selfHidden, parent |-> parent]

\* elements of class markdoc__toggleable, in document order; ref is the
\* data-if attribute ("" when the element has none)
Toggleables(d) ==
    LET base == CASE d.page = "ospkg" ->
                       <<Block("t1", "r1", ""), Block("t2", "r2", ""),
                         Block("t3", "r3", "t2")>>
                  [] d.page \in {"os", "broken"} -> <<Block("t1", "r1", "")>>
                  [] OTHER -> << >>
    IN  CASE d.variant = "orphan" -> Append(base, Block("t9", "r9", ""))
          [] d.variant = "noRef" -> <<Block("t0", "", "")>> \o base
          [] d.variant = "pruned" -> Tail(base)
          [] OTHER -> base

ToggleableIds(d) == {Toggleables(d)[i].id : i \in 1..Len(Toggleables(d))}

BlockById(d, id) ==
    CHOOSE b \in Range(Toggleables(d)) : b.id = id

\* #mainContent h2..h6, in document order
Headers(d) ==
    CASE d.page = "ospkg" /\ d.variant = "pruned" ->
           <<Header(2, "A", FALSE, ""), Header(4, "C", FALSE, "t3"),
             Header(2, "D", FALSE, ""), Header(3, "E", TRUE, "")>>
      [] d.page = "ospkg" ->
           <<Header(2, "A", FALSE, ""), Header(3, "B", FALSE, "t1"),
             Header(4, "C", FALSE, "t3"), Header(2, "D", FALSE, ""),
             Header(3, "E", TRUE, "")>>
      [] d.page = "os" ->
           <<Header(2, "A", FALSE, ""), Header(3, "B", FALSE, "t1"),
             Header(2, "C", FALSE, "")>>
      [] d.page = "broken" -> <<Header(2, "A", FALSE, "")>>
      [] OTHER -> << >>

HasChooser(d) == d \in Docs /\ d.variant # "noChooser"
HasNav(d) == d \in Docs /\ d.variant # "noNav"
HasStaticPills(d) == d \in Docs /\ d.variant = "pills"

\* the hidden flags the build gives a fresh document
FreshHidden(d) ==
    [id \in ToggleableIds(d) |->
       LET ref == BlockById(d, id).ref
       IN  IF ref \in DOMAIN MinifiedIfFunctions(d.page)
              THEN ~MinifiedIfFunctions(d.page)[ref].v
              ELSE FALSE]

----------------------------------------------------------------------------
(* Chooser markup (getChooserHtml): one pill per option of each resolved   *)
(* preference, carrying data-pref-id and data-option-id                    *)

Pill(prefId, optionId, selected) ==
    [prefId |-> prefId, optionId |-> optionId, selected |-> selected]

PrefPills(pref) ==
    [i \in 1..Len(pref.options) |->
       Pill(pref.id, pref.options[i], pref.options[i] = pref.currentValue)]

RECURSIVE getChooserHtml(_)
getChooserHtml(resolvedPagePrefs) ==
    IF resolvedPagePrefs = << >> THEN << >>
    ELSE PrefPills(Head(resolvedPagePrefs))
         \o getChooserHtml(Tail(resolvedPagePrefs))

\* the chooser markup of the build: the page's preferences under defaults
FreshChooserHtml(d) ==
    IF HasChooser(d)
       THEN getChooserHtml(resolveMinifiedPagePrefs(d.page, EmptyMap).prefs)
       ELSE << >>

----------------------------------------------------------------------------
(* elementIsHidden and populateRightNav                                    *)

\* whether the toggleable or one of its ancestors has class markdoc__hidden
RECURSIVE BlockIsHidden(_, _, _)
BlockIsHidden(d, flags, id) ==
    IF id = "" THEN FALSE
    ELSE flags[id] \/ BlockIsHidden(d, flags, BlockById(d, id).parent)

elementIsHidden(d, flags, header) ==
    header.selfHidden \/ BlockIsHidden(d, flags, header.parent)

Open == [tag |-> "ul", id |-> ""]
Close == [tag |-> "/ul", id |-> ""]
Item(id) == [tag |-> "li", id |-> id]

\* what the scan reads of a header: its level, id and whether it is hidden
Scanned(d, flags) ==
    [i \in 1..Len(Headers(d)) |->
       [level |-> Headers(d)[i].level, id |-> Headers(d)[i].id,
        isHidden |-> elementIsHidden(d, flags, Headers(d)[i])]]

NavStart == [html |-> <<Open>>, lastSeenLevel |-> 2]

\* an iteration that records the level of a hidden header
NavStepLevelFirst(st, header) ==
    IF header.isHidden THEN [st EXCEPT !.lastSeenLevel = header.level]
    ELSE [html |->
            (IF header.level > st.lastSeenLevel THEN Append(st.html, Open)
             ELSE IF header.level < st.lastSeenLevel
                     THEN Append(st.html, Close)
                     ELSE st.html)
            \o <<Item(header.id)>>,
          lastSeenLevel |-> header.level]

\* one iteration of headers.forEach
NavStep(st, header) ==
    IF header.isHidden THEN st
    ELSE [html |->
            (IF header.level > st.lastSeenLevel THEN Append(st.html, Open)
             ELSE IF header.level < st.lastSeenLevel
                     THEN Append(st.html, Close)
                     ELSE st.html)
            \o <<Item(header.id)>>,
          lastSeenLevel |-> header.level]

RECURSIVE NavScan(_, _)
NavScan(st, headers) ==
    IF headers = << >> THEN st
    ELSE NavScan(NavStep(st, Head(headers)), Tail(headers))

\* the markup assigned to rightNav.innerHTML
NavHtml(headers) == Append(NavScan(NavStart, headers).html, Close)


----------------------------------------------------------------------------
(* The controller and the document as one record, so that the steps of an  *)
(* operation compose; error is the exception in flight ("none": none)      *)

World ==
    [pagePrefsConfig |-> pagePrefsConfig,
     prefOptionsConfig |-> prefOptionsConfig,
     chooserElement |-> chooserElement,
     sel |-> selectedValsByPrefId,
     fns |-> ifFunctionsByRef,
     doc |-> doc,
     hidden |-> hidden,
     chooserHtml |-> chooserHtml,
     rightNav |-> rightNav,
     listeners |-> listeners,
     error |-> "none",
     changed |-> {},
     written |-> {}]

Throw(w, e) == [w EXCEPT !.error = e]

\* prefPills[i].addEventListener('click', ...) on every pill of the document
addChooserEventListeners(w) ==
    [w EXCEPT !.listeners.chooser =
                 IF HasChooser(w.doc) /\ w.chooserHtml # << >>
                    THEN @ + 1 ELSE @,
              !.listeners.static =
                 IF HasStaticPills(w.doc) THEN @ + 1 ELSE @]

\* a handler that does not store the clicked option
SetSelectedDropped(w, prefId, optionId) == w

\* this.selectedValsByPrefId[prefId] = optionId
SetSelected(w, prefId, optionId) ==
    [w EXCEPT !.sel = [p \in DOMAIN w.sel \cup {prefId} |->
                         IF p = prefId THEN optionId ELSE w.sel[p]]]

\* the resolved values never written back
AlignSelectedSkipped(sel, resolvedPagePrefs) == sel

\* the selected values aligned with the resolved prefs
RECURSIVE AlignSelected(_, _)
AlignSelected(sel, resolvedPagePrefs) ==
    IF resolvedPagePrefs = << >> THEN sel
    ELSE LET r == Head(resolvedPagePrefs)
         IN  AlignSelected([p \in DOMAIN sel \cup {r.id} |->
                              IF p = r.id THEN r.currentValue ELSE sel[p]],
                           Tail(resolvedPagePrefs))

\* chooserElement.innerHTML = html: the pills of the old markup, and their
\* listeners, are gone
SetChooserHtml(w, html) ==
    [w EXCEPT !.chooserHtml = html,
              !.listeners.chooser =
                 IF w.chooserElement = "doc" THEN 0 ELSE @]

\* a chooser re-render that does not check what initialize sets
rerenderChooserUnguarded(w) ==
    IF w.error # "none" THEN w
    ELSE LET resolved == resolveMinifiedPagePrefs(w.pagePrefsConfig, w.sel)
         IN  IF resolved.error THEN Throw(w, "config")
             ELSE addChooserEventListeners(
                    SetChooserHtml(
                      [w EXCEPT !.sel = AlignSelected(w.sel, resolved.prefs)],
                      getChooserHtml(resolved.prefs)))

rerenderChooser(w) ==
    IF w.error # "none" THEN w
    ELSE IF \/ w.pagePrefsConfig = Undefined
            \/ w.prefOptionsConfig = Undefined
            \/ w.chooserElement = Undefined
       THEN Throw(w, "uninitialized")
    ELSE LET resolved == resolveMinifiedPagePrefs(w.pagePrefsConfig, w.sel)
         IN  IF resolved.error THEN Throw(w, "config")
             ELSE addChooserEventListeners(
                    SetChooserHtml(
                      [w EXCEPT !.sel = AlignSelected(w.sel, resolved.prefs)],
                      getChooserHtml(resolved.prefs)))

\* a first loop that compares the values and does not store the re-resolved
\* function
RECURSIVE UpdateFunctionsNotStored(_, _)
UpdateFunctionsNotStored(w, refs) ==
    IF refs = << >> THEN w
    ELSE LET ref == Head(refs)
             r == reresolveFunctionNode(w.fns[ref], w.sel)
         IN  IF r.error THEN Throw(w, "unresolved")
             ELSE UpdateFunctionsNotStored(
                    [w EXCEPT !.changed =
                                 IF w.fns[ref].value # r.node.value
                                    THEN @ \cup {ref} ELSE @],
                    Tail(refs))

\* the first loop of rerenderPageContent, over Object.keys in order: the
\* functions re-resolved in place and the refs whose value changed
RECURSIVE UpdateFunctions(_, _)
UpdateFunctions(w, refs) ==
    IF refs = << >> THEN w
    ELSE LET ref == Head(refs)
             r == reresolveFunctionNode(w.fns[ref], w.sel)
         IN  IF r.error THEN Throw(w, "unresolved")
             ELSE UpdateFunctions(
                    [w EXCEPT !.fns[ref] = r.node,
                              !.changed =
                                 IF w.fns[ref].value # r.node.value
                                    THEN @ \cup {ref} ELSE @],
                    Tail(refs))

\* remove and add of the class exchanged
SetDisplayInverted(w, id, display) ==
    [w EXCEPT !.hidden[id] = display, !.written = @ \cup {id}]

\* classList.remove / classList.add of markdoc__hidden on one toggleable
SetDisplay(w, id, display) ==
    [w EXCEPT !.hidden[id] = ~display, !.written = @ \cup {id}]

\* a loop that sets the class on every toggleable that has a function
RECURSIVE ToggleBlocksAll(_, _)
ToggleBlocksAll(w, blocks) ==
    IF blocks = << >> THEN w
    ELSE LET b == Head(blocks)
         IN  IF b.ref = "" THEN Throw(w, "noref")
             ELSE IF b.ref \notin DOMAIN w.fns
                     THEN ToggleBlocksAll(w, Tail(blocks))
             ELSE ToggleBlocksAll(SetDisplay(w, b.id, w.fns[b.ref].value),
                                  Tail(blocks))

\* the second loop of rerenderPageContent, over the toggleables
RECURSIVE ToggleBlocks(_, _)
ToggleBlocks(w, blocks) ==
    IF blocks = << >> THEN w
    ELSE LET b == Head(blocks)
         IN  IF b.ref = "" THEN Throw(w, "noref")
             ELSE IF b.ref \notin w.changed THEN ToggleBlocks(w, Tail(blocks))
             ELSE ToggleBlocks(SetDisplay(w, b.id, w.fns[b.ref].value),
                               Tail(blocks))

rerenderPageContent(w) ==
    IF w.error # "none" THEN w
    ELSE LET u == UpdateFunctions(w, RefOrder(w.fns))
         IN  IF u.error # "none" THEN u
             ELSE ToggleBlocks(u, Toggleables(u.doc))

\* a navigation rebuild that returns when the container is missing
populateRightNavSilent(w) ==
    IF w.error # "none" THEN w
    ELSE IF ~HasNav(w.doc) THEN w
    ELSE [w EXCEPT !.rightNav = NavHtml(Scanned(w.doc, w.hidden))]

populateRightNav(w) ==
    IF w.error # "none" THEN w
    ELSE IF ~HasNav(w.doc) THEN Throw(w, "nav")
    ELSE [w EXCEPT !.rightNav = NavHtml(Scanned(w.doc, w.hidden))]

\* a click event: whether its target is an Element, and the target's
\* data-pref-id and data-option-id ("" and << >>: no such attribute)
Event(element, prefId, optionId) ==
    [element |-> element, prefId |-> prefId, optionId |-> optionId]

Events ==
    {Event(TRUE, p, o) : p \in {"os", "pkg"}, o \in OptionIds}
    \cup {Event(TRUE, "zz", Str("linux")), Event(FALSE, "", << >>),
          Event(TRUE, "", Str("linux")), Event(TRUE, "os", << >>)}

Ignored(e) == ~e.element \/ e.prefId = "" \/ e.optionId = << >>

\* a handler that re-renders the content before the chooser
handleContentFirst(w, e) ==
    IF Ignored(e) THEN w
    ELSE populateRightNav(
           rerenderChooser(
             rerenderPageContent(SetSelected(w, e.prefId, e.optionId))))

\* a handler that checks only that the target is an element
handleAnyElement(w, e) ==
    IF ~e.element THEN w
    ELSE populateRightNav(
           rerenderPageContent(
             rerenderChooser(SetSelected(w, e.prefId, e.optionId))))

\* a handler that rebuilds the navigation before the content
handleNavFirst(w, e) ==
    IF Ignored(e) THEN w
    ELSE rerenderPageContent(
           populateRightNav(
             rerenderChooser(SetSelected(w, e.prefId, e.optionId))))

handlePrefSelectionChange(w, e) ==
    IF Ignored(e) THEN w
    ELSE populateRightNav(
           rerenderPageContent(
             rerenderChooser(SetSelected(w, e.prefId, e.optionId))))

\* the argument of initialize: the page data and the optional selections
InitSelections ==
    {EmptyMap,
     [p \in {"os", "pkg"} |->
        IF p = "os" THEN Str("linux") ELSE Hyphen("windows", "beta")]}

InitArgs ==
    [page : PageNames, hasSelected : {TRUE}, selected : InitSelections]
    \cup [page : PageNames, hasSelected : {FALSE}, selected : {EmptyMap}]

NoArgs == [page |-> Undefined, hasSelected |-> FALSE, selected |-> EmptyMap]

\* this.ifFunctionsByRef = {} and the forEach that fills it
ExpandAll(minified) ==
    [ref \in DOMAIN minified |-> expandClientFunction(minified[ref])]

\* an initialize that merges the given selections into the stored ones
initializeMerging(w, p) ==
    LET given == IF p.hasSelected THEN p.selected ELSE EmptyMap
        set == [w EXCEPT !.pagePrefsConfig = p.page,
                         !.prefOptionsConfig = p.page,
                         !.chooserElement = "arg",
                         !.sel = [k \in DOMAIN w.sel \cup DOMAIN given |->
                                    IF k \in DOMAIN given THEN given[k]
                                    ELSE w.sel[k]],
                         !.fns = ExpandAll(MinifiedIfFunctions(p.page))]
    IN  IF ~HasChooser(w.doc) THEN Throw(set, "chooser")
        ELSE [addChooserEventListeners([set EXCEPT !.chooserElement = "doc"])
                EXCEPT !.listeners.domReady = TRUE]

initialize(w, p) ==
    LET set == [w EXCEPT !.pagePrefsConfig = p.page,
                         !.prefOptionsConfig = p.page,
                         !.chooserElement = "arg",
                         !.sel = IF p.hasSelected THEN p.selected ELSE EmptyMap,
                         !.fns = ExpandAll(MinifiedIfFunctions(p.page))]
    IN  IF ~HasChooser(w.doc) THEN Throw(set, "chooser")
        ELSE [addChooserEventListeners([set EXCEPT !.chooserElement = "doc"])
                EXCEPT !.listeners.domReady = TRUE]


----------------------------------------------------------------------------
(* State machine                                                           *)

NoListeners ==
    [chooser |-> 0, static |-> 0, domReady |-> FALSE, loaded |-> FALSE]

Snapshot(w) == [sel |-> w.sel, fns |-> w.fns, hidden |-> w.hidden]

NoEvent == Event(FALSE, "", << >>)

Outcome(op, w, before, e) ==
    [op |-> op, error |-> w.error, event |-> e, ignored |-> Ignored(e),
     changed |-> w.changed, written |-> w.written, before |-> before]

NavIdle ==
    [headers |-> << >>, pos |-> 0, st |-> NavStart, prev |-> NavStart,
     done |-> FALSE, html |-> << >>]

\* whether the hidden flags of the document agree with the function values
Synced(d, flags, fns) ==
    \A id \in ToggleableIds(d) :
        BlockById(d, id).ref \in DOMAIN fns
            => (flags[id] <=> ~fns[BlockById(d, id).ref].value)

\* a document as the build rendered it, and the controller just constructed
InitPage ==
    /\ pagePrefsConfig = Undefined
    /\ prefOptionsConfig = Undefined
    /\ chooserElement = Undefined
    /\ selectedValsByPrefId = EmptyMap
    /\ ifFunctionsByRef = EmptyMap
    /\ doc \in Docs
    /\ hidden = FreshHidden(doc)
    /\ chooserHtml = FreshChooserHtml(doc)
    /\ rightNav = << >>
    /\ listeners = NoListeners
    /\ outcome = [op |-> "new", error |-> "none", event |-> NoEvent,
                  ignored |-> TRUE, changed |-> {}, written |-> {},
                  before |-> [sel |-> EmptyMap, fns |-> EmptyMap,
                              hidden |-> FreshHidden(doc)]]
    /\ initArgs = [args |-> NoArgs, synced |-> FALSE]
    /\ scenario = 0

Init == InitPage /\ nav = NavIdle

\* the world after an operation becomes the state
Becomes(w) ==
    /\ w.listeners.chooser <= MaxListeners
    /\ w.listeners.static <= MaxListeners
    /\ pagePrefsConfig' = w.pagePrefsConfig
    /\ prefOptionsConfig' = w.prefOptionsConfig
    /\ chooserElement' = w.chooserElement
    /\ selectedValsByPrefId' = w.sel
    /\ ifFunctionsByRef' = w.fns
    /\ doc' = w.doc
    /\ hidden' = w.hidden
    /\ chooserHtml' = w.chooserHtml
    /\ rightNav' = w.rightNav
    /\ listeners' = w.listeners

\* the steps of the end-to-end scenario on the os/pkg page
ScenarioClicks ==
    << [prefId |-> "os", optionId |-> Str("windows")],
       [prefId |-> "pkg", optionId |-> Hyphen("windows", "beta")],
       [prefId |-> "os", optionId |-> Str("linux")] >>

ScenarioAfterClick(e, error) ==
    IF /\ scenario \in 1..Len(ScenarioClicks)
       /\ ~Ignored(e)
       /\ [prefId |-> e.prefId, optionId |-> e.optionId] = ScenarioClicks[scenario]
       /\ error = "none"
       THEN scenario + 1
       ELSE 0

\* the page's script calls initialize with the page data of the document;
\* a later call is initialize called again on the same document
Initialize(p) ==
    /\ p.page = doc.page
    /\ \E w \in {initialize(World, p)} :
           /\ Becomes(w)
           /\ outcome' = [Outcome("initialize", w, Snapshot(World), NoEvent)
                            EXCEPT !.ignored = FALSE]
           /\ initArgs' = [args |-> p, synced |-> Synced(doc, hidden, w.fns)]
           /\ scenario' = IF w.error = "none" /\ p.page = "ospkg" THEN 1 ELSE 0
    /\ UNCHANGED nav

\* handlePrefSelectionChange runs, as a click listener or called directly,
\* on any event
Click(e) ==
    /\ \E w \in {handlePrefSelectionChange(World, e)} :
           /\ Becomes(w)
           /\ outcome' = Outcome("click", w, Snapshot(World), e)
           /\ scenario' = ScenarioAfterClick(e, w.error)
    /\ UNCHANGED <<initArgs, nav>>

\* the document's DOMContentLoaded: the callbacks initialize registered run
DomContentLoaded ==
    /\ ~listeners.loaded
    /\ \E w \in {IF listeners.domReady THEN populateRightNav(World) ELSE World} :
       \E v \in {[w EXCEPT !.listeners.loaded = TRUE,
                           !.listeners.domReady = FALSE]} :
           /\ Becomes(v)
           /\ outcome' = [Outcome("ready", v, Snapshot(World), NoEvent)
                            EXCEPT !.ignored = ~listeners.domReady]
    /\ UNCHANGED <<initArgs, scenario, nav>>

Next ==
    \/ \E p \in InitArgs : Initialize(p)
    \/ \E e \in Events : Click(e)
    \/ DomContentLoaded

Spec == Init /\ [][Next]_vars

----------------------------------------------------------------------------
(* The methods of the controller called on their own                       *)

CallRerenderChooser ==
    /\ \E w \in {rerenderChooser(World)} :
           /\ Becomes(w)
           /\ outcome' = [Outcome("rerenderChooser", w, Snapshot(World), NoEvent)
                            EXCEPT !.ignored = FALSE]
    /\ scenario' = 0
    /\ UNCHANGED <<initArgs, nav>>

CallRerenderPageContent ==
    /\ \E w \in {rerenderPageContent(World)} :
           /\ Becomes(w)
           /\ outcome' = [Outcome("rerenderPageContent", w, Snapshot(World), NoEvent)
                            EXCEPT !.ignored = FALSE]
    /\ scenario' = 0
    /\ UNCHANGED <<initArgs, nav>>

CallPopulateRightNav ==
    /\ \E w \in {populateRightNav(World)} :
           /\ Becomes(w)
           /\ outcome' = [Outcome("populateRightNav", w, Snapshot(World), NoEvent)
                            EXCEPT !.ignored = FALSE]
    /\ scenario' = 0
    /\ UNCHANGED <<initArgs, nav>>

NextCalls ==
    \/ Next
    \/ CallRerenderChooser
    \/ CallRerenderPageContent
    \/ CallPopulateRightNav

\* the documents on which the methods are called on their own
CallDocs ==
    {[page |-> "os", variant |-> "ok"], [page |-> "os", variant |-> "noChooser"],
     [page |-> "ospkg", variant |-> "noNav"],
     [page |-> "ospkg", variant |-> "noRef"]}

InitCalls == Init /\ doc \in CallDocs

SpecCalls == InitCalls /\ [][NextCalls]_vars

----------------------------------------------------------------------------
(* populateRightNav on its own, one heading per step, over heading lists   *)

HeaderIds == <<"A", "B", "C", "D", "E", "F">>

HeaderShapes == [level : 2..6, isHidden : BOOLEAN]

\* the heading lists of at most MaxHeaders headings, as the scan reads them
HeaderLists ==
    UNION {{[i \in 1..n |-> [level |-> f[i].level, id |-> HeaderIds[i],
                             isHidden |-> f[i].isHidden]] :
              f \in [1..n -> HeaderShapes]} : n \in 0..MaxHeaders}

InitNav ==
    /\ InitPage
    /\ doc = [page |-> "os", variant |-> "ok"]
    /\ \E h \in HeaderLists : nav = [NavIdle EXCEPT !.headers = h]

\* one iteration of headers.forEach
NavIterate ==
    /\ ~nav.done
    /\ nav.pos < Len(nav.headers)
    /\ nav' = [nav EXCEPT !.pos = @ + 1,
                          !.prev = nav.st,
                          !.st = NavStep(nav.st, nav.headers[nav.pos + 1])]
    /\ UNCHANGED <<pagePrefsConfig, prefOptionsConfig, chooserElement,
                   selectedValsByPrefId, ifFunctionsByRef, doc, hidden,
                   chooserHtml, rightNav, listeners, outcome, initArgs,
                   scenario>>

\* html += '</ul>' and rightNav.innerHTML = html
NavFinish ==
    /\ ~nav.done
    /\ nav.pos = Len(nav.headers)
    /\ HasNav(doc)
    /\ nav' = [nav EXCEPT !.done = TRUE, !.html = Append(nav.st.html, Close)]
    /\ rightNav' = Append(nav.st.html, Close)
    /\ UNCHANGED <<pagePrefsConfig, prefOptionsConfig, chooserElement,
                   selectedValsByPrefId, ifFunctionsByRef, doc, hidden,
                   chooserHtml, listeners, outcome, initArgs, scenario>>

NextNav == NavIterate \/ NavFinish

SpecNav == InitNav /\ [][NextNav]_vars


----------------------------------------------------------------------------
(* Properties                                                              *)

\* the last operation was a selection change that ran to its end
Completed ==
    outcome.op = "click" /\ ~outcome.ignored /\ outcome.error = "none"

\* the SelectionState right after step 1 of the last selection change
WrittenSelection ==
    SetSelected([sel |-> outcome.before.sel], outcome.event.prefId,
                outcome.event.optionId).sel

Defs == PrefDefs(pagePrefsConfig)

\* the toggleables whose hidden flag differs from before the operation
Flipped == {id \in ToggleableIds(doc) : hidden[id] # outcome.before.hidden[id]}

\* the toggleables whose reference is one of refs
BlocksOf(refs) == {id \in ToggleableIds(doc) : BlockById(doc, id).ref \in refs}

\* C1: at the end of every completed selection change, the value stored for
\* each Expression is its value under the corrected SelectionState: the
\* correction ran before the re-evaluation
C1_EvaluatedAfterCorrection ==
    Completed =>
        \A ref \in DOMAIN ifFunctionsByRef :
            LET r == reresolveFunctionNode(ifFunctionsByRef[ref],
                                           selectedValsByPrefId)
            IN  ~r.error /\ r.node.value = ifFunctionsByRef[ref].value

\* a completed selection change whose correction replaced the selection of
\* another preference than the clicked one
C1_Witness ==
    /\ Completed
    /\ \E p \in DOMAIN WrittenSelection :
          /\ p # outcome.event.prefId
          /\ selectedValsByPrefId[p] # WrittenSelection[p]

\* C2 (I3): after initialize on a page whose hidden flags match the initial
\* Expression values, at the end of every completed selection change each
\* content block is visible iff the Expression under its reference is true
C2_VisibilityMatchesExpression ==
    (initArgs.synced /\ Completed) =>
        \A id \in ToggleableIds(doc) :
            LET ref == BlockById(doc, id).ref
            IN  ref \in DOMAIN ifFunctionsByRef
                    => (~hidden[id] <=> ifFunctionsByRef[ref].value)

\* a completed selection change that toggled a block of a page in sync
C2_Witness ==
    initArgs.synced /\ Completed /\ Flipped # {}

\* C3: after every completed selection change, every preference of the page
\* holds a member of its option list as concretized under the SelectionState,
\* and a written value that is no member was replaced by the default
C3_SelectionsValid ==
    Completed =>
        \A i \in 1..Len(Defs) :
            LET def == Defs[i]
                opts == Range(ConcreteOptions(def, selectedValsByPrefId))
            IN  /\ def.id \in DOMAIN selectedValsByPrefId
                /\ selectedValsByPrefId[def.id] \in opts
                /\ (def.id \notin DOMAIN WrittenSelection
                    \/ WrittenSelection[def.id] \notin opts)
                      => selectedValsByPrefId[def.id]
                            = Interpolate(def.default, selectedValsByPrefId)

\* a completed selection change that replaced a stored value that was no
\* member of its option list by the default
C3_Witness ==
    /\ Completed
    /\ \E i \in 1..Len(Defs) :
          /\ Defs[i].id \in DOMAIN WrittenSelection
          /\ WrittenSelection[Defs[i].id]
                \notin Range(ConcreteOptions(Defs[i], selectedValsByPrefId))
          /\ selectedValsByPrefId[Defs[i].id]
                = Interpolate(Defs[i].default, selectedValsByPrefId)

\* C4: on the os/pkg page, select os=windows then pkg=windows-beta shows the
\* block gated on pkg == windows-beta; a following select os=linux hides it
\* and leaves SelectionState[pkg] = linux-stable
C4_EndToEnd ==
    /\ scenario = 3 =>
          /\ "t1" \in ToggleableIds(doc) => ~hidden["t1"]
          /\ ifFunctionsByRef["r1"].value
    /\ scenario = 4 =>
          /\ "t1" \in ToggleableIds(doc) => hidden["t1"]
          /\ ~ifFunctionsByRef["r1"].value
          /\ selectedValsByPrefId["pkg"] = Hyphen("linux", "stable")

\* the three selections of the scenario made, the block in the document
C4_Witness ==
    scenario = 4 /\ "t1" \in ToggleableIds(doc) /\ hidden["t1"]

\* C5, as claimed: when exactly one Expression changes value in a cycle,
\* exactly one content block's flag changes
C5_ExactlyOneFlagChanges ==
    (initArgs.synced /\ Completed /\ Cardinality(outcome.changed) = 1)
        => Cardinality(Flipped) = 1

\* C5, amended: a cycle writes the flag only on the blocks whose Expression
\* changed value and leaves every other flag as it was; on a page in sync the
\* flags that change are those of the blocks of the changed Expressions
C5_MinimalDiff ==
    (outcome.op = "click" /\ ~outcome.ignored) =>
        /\ outcome.written \subseteq BlocksOf(outcome.changed)
        /\ Flipped \subseteq outcome.written
        /\ Completed => outcome.written = BlocksOf(outcome.changed)
        /\ (Completed /\ initArgs.synced) => Flipped = BlocksOf(outcome.changed)

\* one Expression changed, its block flipped, and another block with an
\* Expression was left alone
C5_Witness ==
    /\ initArgs.synced /\ Completed
    /\ Cardinality(outcome.changed) = 1
    /\ Cardinality(Flipped) = 1
    /\ BlocksOf(DOMAIN ifFunctionsByRef) \ outcome.written # {}


\* C6 (I2), as claimed: when the visibility synchronization meets a content
\* block whose reference has no Expression entry, a fatal error is raised
C6_OrphanBlockIsFatal ==
    (/\ outcome.op = "click" /\ ~outcome.ignored
     /\ outcome.error \notin {"uninitialized", "config", "unresolved"}
     /\ \E id \in ToggleableIds(doc) :
           /\ BlockById(doc, id).ref # ""
           /\ BlockById(doc, id).ref \notin DOMAIN ifFunctionsByRef)
        => outcome.error \notin {"none", "nav"}

\* initialize was never called
Uninitialized ==
    /\ pagePrefsConfig = Undefined
    /\ prefOptionsConfig = Undefined
    /\ chooserElement = Undefined

\* C7, as claimed: while Uninitialized every operation other than initialize
\* fails with an error
C7_AllOperationsFail ==
    (/\ Uninitialized
     /\ outcome.op \in {"click", "rerenderChooser", "rerenderPageContent",
                        "populateRightNav"}
     /\ ~outcome.ignored)
        => outcome.error # "none"

\* C7, amended: while Uninitialized a selection change and rerenderChooser
\* fail with the error of rerenderChooser's check; rerenderPageContent and
\* populateRightNav fail only for what the document lacks
C7_ChooserOperationsFail ==
    Uninitialized =>
        /\ (outcome.op \in {"click", "rerenderChooser"} /\ ~outcome.ignored)
              => outcome.error = "uninitialized"
        /\ outcome.op = "rerenderPageContent"
              => outcome.error
                    = (IF \E id \in ToggleableIds(doc) : BlockById(doc, id).ref = ""
                          THEN "noref" ELSE "none")
        /\ outcome.op = "populateRightNav"
              => outcome.error = (IF HasNav(doc) THEN "none" ELSE "nav")

\* a selection change made while Uninitialized has failed
C7_Witness ==
    /\ Uninitialized
    /\ outcome.op = "click" /\ ~outcome.ignored
    /\ outcome.error = "uninitialized"

\* C8: after a successful initialize, SelectionState is the call's selection
\* map (empty if omitted) and the Expression mapping holds the decoded entries
\* of the call's input under the same keys, whatever was stored before
C8_InitializeOverwrites ==
    (outcome.op = "initialize" /\ outcome.error = "none") =>
        LET p == initArgs.args
            given == MinifiedIfFunctions(p.page)
        IN  /\ selectedValsByPrefId
                  = (IF p.hasSelected THEN p.selected ELSE EmptyMap)
            /\ DOMAIN ifFunctionsByRef = DOMAIN given
            /\ \A ref \in DOMAIN given :
                  /\ ifFunctionsByRef[ref].value = given[ref].v
                  /\ ifFunctionsByRef[ref] = expandClientFunction(given[ref])

\* a second successful initialize, after selection changes under the first
\* left a key and function values that the second call does not give
C8_Witness ==
    /\ outcome.op = "initialize" /\ outcome.error = "none"
    /\ outcome.before.fns # EmptyMap
    /\ outcome.before.fns # ifFunctionsByRef
    /\ DOMAIN outcome.before.sel \ DOMAIN selectedValsByPrefId # {}

Count(html, tag) == Cardinality({i \in 1..Len(html) : html[i].tag = tag})

Max(a, b) == IF a > b THEN a ELSE b

\* C9, as claimed: a visible heading k levels below the previous visible one
\* opens k nested lists, one k levels above it closes k
C9_OneListPerLevel ==
    (nav.pos > 0 /\ ~nav.headers[nav.pos].isHidden) =>
        LET level == nav.headers[nav.pos].level
            last == nav.prev.lastSeenLevel
        IN  /\ Count(nav.st.html, "ul") - Count(nav.prev.html, "ul")
                  = Max(level - last, 0)
            /\ Count(nav.st.html, "/ul") - Count(nav.prev.html, "/ul")
                  = Max(last - level, 0)

\* the toggleable and the toggleables around it
RECURSIVE SelfAndAncestors(_, _)
SelfAndAncestors(d, id) ==
    IF id = "" THEN {}
    ELSE {id} \cup SelfAndAncestors(d, BlockById(d, id).parent)

\* the headers that are shown: not hidden themselves, under no hidden block
ShownHeaders ==
    SelectSeq(Headers(doc),
              LAMBDA h : /\ ~h.selfHidden
                         /\ \A a \in SelfAndAncestors(doc, h.parent) : ~hidden[a])

Items(html) == SelectSeq(html, LAMBDA t : t.tag = "li")

\* C10: the rebuilt navigation list has an item for a heading iff neither it
\* nor an ancestor is hidden, in reading order, nested as if the hidden
\* headings were not in the document
C10_NavigationSkipsHidden ==
    (Completed \/ (outcome.op = "ready" /\ ~outcome.ignored
                   /\ outcome.error = "none")) =>
        /\ Items(rightNav)
              = [i \in 1..Len(ShownHeaders) |-> Item(ShownHeaders[i].id)]
        /\ rightNav
              = NavHtml([i \in 1..Len(ShownHeaders) |->
                           [level |-> ShownHeaders[i].level,
                            id |-> ShownHeaders[i].id, isHidden |-> FALSE]])
        /\ (doc.page = "os" /\ hidden["t1"])
              => rightNav = <<Open, Item("A"), Item("C"), Close>>

\* a navigation rebuilt with a lower heading under a hidden block between
\* two headings of level 2
C10_Witness ==
    /\ Completed
    /\ doc.page = "os" /\ hidden["t1"]
    /\ Items(rightNav) = <<Item("A"), Item("C")>>


\* initialize has set the page data
Ready == pagePrefsConfig # Undefined

\* C11: a click whose target is no element, or has no preference id or no
\* option id, changes neither SelectionState, the Expression values, the
\* chooser markup, the hidden flags nor the navigation list, and raises
\* nothing
C11_IgnoredEventsChangeNothing ==
    [][(outcome'.op = "click" /\ outcome'.ignored) =>
          /\ outcome'.error = "none"
          /\ UNCHANGED <<selectedValsByPrefId, ifFunctionsByRef, chooserHtml,
                         hidden, rightNav, listeners>>]_vars

\* a click on an element that has a preference id and no option id, on a
\* controller with selections stored and the navigation built
C11_Witness ==
    /\ Ready
    /\ outcome.op = "click" /\ outcome.ignored
    /\ outcome.event.element /\ outcome.event.prefId # ""
    /\ selectedValsByPrefId # EmptyMap
    /\ rightNav # << >>

\* C12, as claimed: a selection change that raises (uninitialized
\* controller, resolver configuration error, missing navigation container)
\* leaves SelectionState and the Expression values as they were
C12_FailedChangeLeavesState ==
    (/\ outcome.op = "click" /\ ~outcome.ignored
     /\ outcome.error \in {"uninitialized", "config", "nav"})
        => /\ selectedValsByPrefId = outcome.before.sel
           /\ ifFunctionsByRef = outcome.before.fns

\* C13: initialize raises when the document has no chooser container, and a
\* navigation rebuild (of a selection change that reaches it, or of the
\* page-ready callback) raises when it has no navigation container
C13_EnvironmentErrorsAreFatal ==
    /\ (outcome.op = "initialize" /\ ~HasChooser(doc))
          => outcome.error = "chooser"
    /\ (outcome.op \in {"click", "ready"} /\ ~outcome.ignored /\ ~HasNav(doc))
          => outcome.error # "none"
    /\ (outcome.op \in {"click", "ready"} /\ ~outcome.ignored /\ ~HasNav(doc)
        /\ Ready /\ resolveMinifiedPagePrefs(pagePrefsConfig, EmptyMap).error = FALSE
        /\ \A id \in ToggleableIds(doc) : BlockById(doc, id).ref # "")
          => outcome.error = "nav"

\* a selection change on a document without navigation container that came
\* to the navigation rebuild and raised there
C13_Witness ==
    /\ outcome.op = "click" /\ ~outcome.ignored
    /\ ~HasNav(doc)
    /\ outcome.error = "nav"
    /\ outcome.changed # {}

\* the preference of the page with this id, resolved under the selections
ResolvedFor(k) ==
    {r \in Range(resolveMinifiedPagePrefs(pagePrefsConfig,
                                          selectedValsByPrefId).prefs) :
        r.id = k}

\* C14, as claimed: in every Ready state at rest, right after initialize
\* included, every entry of SelectionState is a member of its preference's
\* concretized option list
C14_SelectionsValidAtRest ==
    (/\ Ready
     /\ outcome.error = "none"
     /\ outcome.op \in {"initialize", "click"})
        => \A k \in DOMAIN selectedValsByPrefId :
              \E r \in ResolvedFor(k) : selectedValsByPrefId[k] \in Range(r.options)

\* C15: after every completed selection change the navigation list has an
\* item for exactly the headings shown under the hidden flags of that cycle:
\* none for a heading in a block the cycle hid, one for a heading in a block
\* the cycle showed
C15_NavigationAfterVisibility ==
    Completed =>
        \A i \in 1..Len(Headers(doc)) :
            LET h == Headers(doc)[i]
            IN  /\ Item(h.id) \in Range(rightNav)
                      <=> ~elementIsHidden(doc, hidden, h)
                /\ (h.parent \in Flipped /\ hidden[h.parent])
                      => Item(h.id) \notin Range(rightNav)

\* a completed selection change that hid a block with a heading, which the
\* navigation no longer lists
C15_Witness ==
    /\ Completed
    /\ \E i \in 1..Len(Headers(doc)) :
          /\ Headers(doc)[i].parent \in Flipped
          /\ hidden[Headers(doc)[i].parent]
          /\ Item(Headers(doc)[i].id) \notin Range(rightNav)

\* the state a finished operation leaves, as the next one finds it
AtRest(w) == [w EXCEPT !.error = "none", !.changed = {}, !.written = {}]

\* the selection changes: the events that are not ignored
Selections == {e \in Events : ~Ignored(e)}

\* C16: in a Ready state, a selection change applied twice in a row leaves
\* the SelectionState, the Expression values and the hidden flags that one
\* application leaves, and the second application toggles no block
C16_RepeatedSelectionIdempotent ==
    Ready =>
        \A e \in Selections :
            LET once == handlePrefSelectionChange(World, e)
                twice == handlePrefSelectionChange(AtRest(once), e)
            IN  /\ twice.sel = once.sel
                /\ twice.fns = once.fns
                /\ twice.hidden = once.hidden
                /\ twice.written = {}

\* a completed selection change that repeated the one before it: the option
\* was the stored one and nothing changed
C16_Witness ==
    /\ Completed
    /\ outcome.event.prefId \in DOMAIN outcome.before.sel
    /\ outcome.before.sel[outcome.event.prefId] = outcome.event.optionId
    /\ outcome.before.sel = selectedValsByPrefId
    /\ outcome.before.fns = ifFunctionsByRef
    /\ outcome.written = {}
    /\ \E ref \in DOMAIN ifFunctionsByRef :
          ifFunctionsByRef[ref].value
             # expandClientFunction(MinifiedIfFunctions(pagePrefsConfig)[ref]).value

\* C17, as claimed: after any initialize calls and selection changes every
\* option control of the document has exactly one click handler
C17_OneHandlerPerPill ==
    (/\ outcome.op \in {"initialize", "click"}
     /\ ~outcome.ignored
     /\ outcome.error = "none")
        => /\ (HasChooser(doc) /\ chooserHtml # << >>) => listeners.chooser = 1
           /\ HasStaticPills(doc) => listeners.static = 1

\* C18, as claimed: while populateRightNav scans, the list-close tags never
\* outnumber the list-open tags, and the final markup has as many of each
C18_NavigationWellNested ==
    /\ Count(nav.st.html, "/ul") <= Count(nav.st.html, "ul")
    /\ nav.done => Count(nav.html, "/ul") = Count(nav.html, "ul")

\* C19, as claimed: an initialize that raises for the missing chooser
\* container leaves the page data, SelectionState and the Expression mapping
\* of a controller never initialized as they were
C19_FailedInitializeLeavesState ==
    (/\ outcome.op = "initialize"
     /\ outcome.error = "chooser"
     /\ outcome.before.fns = EmptyMap)
        => /\ Uninitialized
           /\ selectedValsByPrefId = outcome.before.sel
           /\ ifFunctionsByRef = outcome.before.fns


====
